---- MODULE Spec2Model ----
(***************************************************************************)
(* A model of the FromRequest derive of 1aim/from-request (hyperdrive):    *)
(* route path parsing and overlap detection (derive/src/from_request/      *)
(* parse.rs), the path map, and the request decoder that the derive        *)
(* generates (derive/src/from_request/mod.rs).                             *)
(*                                                                         *)
(* Strings are sequences of one-character strings, so that splitting,      *)
(* prefix tests and regex matching are computed and not assumed.           *)
(***************************************************************************)
EXTENDS Naturals, Sequences, FiniteSets, TLC

\* ------------------------------------------------------------------ bounds

\* Longest route path, in `/`-separated segments, that the inputs contain.
MaxSegments == 2

\* Most route attributes of a routing table.
MaxRoutes == 2

\* Longest request path, in characters, sent to a routing table.
MaxPathLen == 2

\* Longest request path, in characters, sent to a single route.
MaxLongPathLen == 5

\* Most guard fields of a variant.
MaxGuards == 2

\* Most builds of the PathMap of one type.
MaxBuilds == 3

\* Most decodes in flight at a time.
MaxDecodes == 2

\* ------------------------------------------------------------------ strings

Letters == {"a", "b", "x", "y", "r", "_"}
Digits == {"0", "1"}

\* str::starts_with / str::ends_with on character sequences.
starts_with(s, p) == Len(s) >= Len(p) /\ SubSeq(s, 1, Len(p)) = p
ends_with(s, p) == Len(s) >= Len(p) /\ SubSeq(s, Len(s) - Len(p) + 1, Len(s)) = p

\* str::split('/'): the pieces between the slashes; n slashes give n+1 pieces.
RECURSIVE split(_)
split(s) ==
    IF \A i \in 1..Len(s) : s[i] # "/"
    THEN <<s>>
    ELSE LET i == CHOOSE k \in 1..Len(s) :
                      s[k] = "/" /\ \A j \in 1..(k - 1) : s[j] # "/"
         IN  <<SubSeq(s, 1, i - 1)>> \o split(SubSeq(s, i + 1, Len(s)))

\* Iterator::skip(1).
skip1(seq) == SubSeq(seq, 2, Len(seq))

\* ------------------------------------------------------------------ regex

\* A regular expression is the sequence of the tokens of its source text:
\* single characters, and the two capture groups the derive emits.
GroupSegment == "([^/]+)"
GroupRest == "(.*)"

\* regex_syntax::is_meta_character, on the characters used here.
is_meta_character(c) == c \in {"\\", ".", "+", "*", "?", "(", ")", "|", "[", "]", "{", "}", "^", "$", "#", "&", "-", "~"}

\* regex_syntax::escape_into: a backslash before every meta character.
RECURSIVE escape(_)
escape(lit) ==
    IF lit = <<>> THEN <<>>
    ELSE (IF is_meta_character(Head(lit)) THEN <<"\\", Head(lit)>> ELSE <<Head(lit)>>)
         \o escape(Tail(lit))

NoMatch == [ok |-> FALSE, caps |-> <<>>]

\* Length of the longest run of characters other than `/` starting at s[j].
RECURSIVE RunLen(_, _)
RunLen(s, j) == IF j > Len(s) \/ s[j] = "/" THEN 0 ELSE 1 + RunLen(s, j + 1)

\* Backtracking match of the tokens re[i..] against s[j..]; greedy groups.
RECURSIVE MatchFrom(_, _, _, _)
RECURSIVE Greedy(_, _, _, _, _, _)
MatchFrom(re, i, s, j) ==
    IF i > Len(re) THEN [ok |-> TRUE, caps |-> <<>>]
    ELSE IF re[i] = "^" THEN (IF j = 1 THEN MatchFrom(re, i + 1, s, j) ELSE NoMatch)
    ELSE IF re[i] = "$" THEN (IF j = Len(s) + 1 THEN MatchFrom(re, i + 1, s, j) ELSE NoMatch)
    ELSE IF re[i] = "\\" THEN
        (IF j <= Len(s) /\ s[j] = re[i + 1] THEN MatchFrom(re, i + 2, s, j + 1) ELSE NoMatch)
    ELSE IF re[i] = GroupSegment THEN Greedy(re, i, s, j, RunLen(s, j), 1)
    ELSE IF re[i] = GroupRest THEN Greedy(re, i, s, j, Len(s) + 1 - j, 0)
    ELSE (IF j <= Len(s) /\ s[j] = re[i] THEN MatchFrom(re, i + 1, s, j + 1) ELSE NoMatch)

\* The group re[i] takes k characters, the most first, at least min.
Greedy(re, i, s, j, k, min) ==
    IF k < min THEN NoMatch
    ELSE LET r == MatchFrom(re, i + 1, s, j + k)
         IN  IF r.ok THEN [ok |-> TRUE, caps |-> <<SubSeq(s, j, j + k - 1)>> \o r.caps]
             ELSE Greedy(re, i, s, j, k - 1, min)

\* Regex::captures: the leftmost match, searched from every start position
\* (an anchor in the expression is what ties the match to the ends).
RECURSIVE SearchFrom(_, _, _)
SearchFrom(re, s, j) ==
    IF j > Len(s) + 1 THEN NoMatch
    ELSE LET r == MatchFrom(re, 1, s, j)
         IN  IF r.ok THEN r ELSE SearchFrom(re, s, j + 1)

captures(re, s) == SearchFrom(re, s, 1)

\* Regex::is_match.
is_match(re, s) == captures(re, s).ok

\* Regex::captures_len: the groups of the expression, with the implicit
\* group 0 of the whole match.
captures_len(re) == 1 + Cardinality({i \in 1..Len(re) : re[i] \in {GroupSegment, GroupRest}})

\* ------------------------------------------------------------------ parse.rs

valid_ident(s) ==
    /\ s # <<>>
    /\ s # <<"_">>
    /\ s[1] \in Letters
    /\ \A i \in 2..Len(s) : s[i] \in Letters \cup Digits

Placeholder(ident) == [kind |-> "Placeholder", text |-> ident]
Rest(ident) == [kind |-> "Rest", text |-> ident]
Literal(lit) == [kind |-> "Literal", text |-> lit]
InvalidIdent == [kind |-> "panic", text |-> <<>>]

\* PathSegment::parse; an invalid identifier panics.
PathSegment_parse(segment) ==
    IF starts_with(segment, <<"{">>) /\ ends_with(segment, <<"}">>)
    THEN LET inner == SubSeq(segment, 2, Len(segment) - 1)
         IN  IF ends_with(inner, <<".", ".", ".">>)
             THEN LET ident == SubSeq(inner, 1, Len(inner) - 3)
                  IN  IF ~valid_ident(ident) THEN InvalidIdent ELSE Rest(ident)
             ELSE IF ~valid_ident(inner) THEN InvalidIdent ELSE Placeholder(inner)
    ELSE Literal(segment)

\* PathSegment::matching_string.
matching_string(seg) ==
    IF seg.kind = "Rest" THEN seg.text \o <<".", ".", ".">> ELSE seg.text

\* A segment regex whose rest placeholder stops at the next slash, as a
\* plain placeholder does.
SegmentRegexRestAsSegment(seg) ==
    IF seg.kind \in {"Rest", "Placeholder"} THEN <<"/", GroupSegment>>
    ELSE <<"/">> \o escape(seg.text)

\* The regex source of one segment, as RoutePath::parse appends it.
SegmentRegex(seg) ==
    IF seg.kind = "Rest" THEN <<"/", GroupRest>>
    ELSE IF seg.kind = "Placeholder" THEN <<"/", GroupSegment>>
    ELSE <<"/">> \o escape(seg.text)

RECURSIVE SegmentsRegex(_)
SegmentsRegex(segments) ==
    IF segments = <<>> THEN <<>>
    ELSE SegmentRegex(Head(segments)) \o SegmentsRegex(Tail(segments))

PlaceholdersOf(segments) ==
    LET F[i \in 0..Len(segments)] ==
            IF i = 0 THEN <<>>
            ELSE IF segments[i].kind \in {"Placeholder", "Rest"}
                 THEN Append(F[i - 1], segments[i].text)
                 ELSE F[i - 1]
    IN  F[Len(segments)]

ParsePanic(msg) == [ok |-> FALSE, panic |-> msg]

\* RoutePath::parse: the asterisk path, or the segments after the leading
\* slash with the regex that matches them.
RoutePath_parse(path) ==
    IF path = <<"*">>
    THEN [ok |-> TRUE, raw |-> path, regex |-> <<"\\", "*">>,
          segments |-> <<>>, placeholders |-> <<>>]
    ELSE IF ~starts_with(path, <<"/">>)
    THEN ParsePanic("paths of route attributes must start with a slash")
    ELSE LET pieces == skip1(split(path))
             segments == [i \in 1..Len(pieces) |-> PathSegment_parse(pieces[i])]
             placeholders == PlaceholdersOf(segments)
         IN  IF \E i \in 1..Len(segments) : segments[i].kind = "panic"
             THEN ParsePanic("placeholder must be a valid identifier")
             ELSE IF \E i \in 1..Len(segments) :
                        segments[i].kind = "Rest" /\ i # Len(segments)
             THEN ParsePanic("...-placeholders must not be followed by anything")
             ELSE IF \E i, j \in 1..Len(placeholders) :
                        i # j /\ placeholders[i] = placeholders[j]
             THEN ParsePanic("duplicate placeholders in route path")
             ELSE [ok |-> TRUE, raw |-> path,
                   regex |-> <<"^">> \o SegmentsRegex(segments) \o <<"$">>,
                   segments |-> segments, placeholders |-> placeholders]

\* RoutePath::matches_same_paths.
matches_same_paths(self, other) == self.regex = other.regex

\* SegmentsFused: the k-th item of the iterator (0 when it has ended); a
\* "rest" segment, once yielded, is yielded forever.
Fused(segments, k) ==
    LET rests == {i \in 1..Len(segments) : segments[i].kind = "Rest"}
    IN  IF rests # {} /\ k >= (CHOOSE i \in rests : \A j \in rests : i <= j)
        THEN segments[CHOOSE i \in rests : \A j \in rests : i <= j]
        ELSE IF k <= Len(segments) THEN segments[k]
        ELSE [kind |-> "end", text |-> <<>>]

OvSome(path) == [tag |-> "Some", path |-> path]
OvNone == [tag |-> "None", path |-> <<>>]
OvPanic == [tag |-> "panic", path |-> <<>>]

\* The loop of find_overlap over the zipped, fused segments, from item k on.
RECURSIVE OverlapLoop(_, _, _, _, _)
OverlapLoop(self, other, k, overlap, saw_rest) ==
    LET a == Fused(self.segments, k)
        b == Fused(other.segments, k)
    IN  IF a.kind = "end" \/ b.kind = "end"
        THEN IF Len(self.segments) = Len(other.segments) \/ saw_rest
             THEN OvSome(overlap) ELSE OvNone
        ELSE IF a.kind = "Rest" /\ b.kind = "Rest"
        THEN OvSome(overlap \o <<"/">> \o matching_string(a))
        ELSE IF a.kind = "Rest"
        THEN OverlapLoop(self, other, k + 1, overlap \o <<"/">> \o matching_string(b), TRUE)
        ELSE IF b.kind = "Rest"
        THEN OverlapLoop(self, other, k + 1, overlap \o <<"/">> \o matching_string(a), TRUE)
        ELSE IF a.kind = "Placeholder" /\ b.kind = "Placeholder"
        THEN OverlapLoop(self, other, k + 1, overlap \o <<"/">> \o a.text, saw_rest)
        ELSE IF a.kind = "Placeholder"
        THEN OverlapLoop(self, other, k + 1, overlap \o <<"/">> \o b.text, saw_rest)
        ELSE IF b.kind = "Placeholder"
        THEN OverlapLoop(self, other, k + 1, overlap \o <<"/">> \o a.text, saw_rest)
        ELSE IF a.text = b.text
        THEN OverlapLoop(self, other, k + 1, overlap \o <<"/">> \o a.text, saw_rest)
        ELSE OvNone

\* RoutePath::find_overlap.  segments_fused asserts that its path has
\* segments, so the asterisk path as `other` of a regular path panics.
find_overlap(self, other) ==
    IF self.segments = <<>>
    THEN IF other.segments = <<>> THEN OvSome(<<"*">>) ELSE OvNone
    ELSE IF other.segments = <<>> THEN OvPanic
    ELSE OverlapLoop(self, other, 1, <<>>, FALSE)

\* ------------------------------------------------------------------ PathMap

\* Route: the method of a route attribute and its parsed path.
Route(method, path) == [method |-> method, path |-> path]

\* The routes registered so far, in map order (all groups, each in
\* method order), with the variant each was placed on.
RECURSIVE AllRoutes(_)
AllRoutes(regex_map) ==
    IF regex_map = <<>> THEN <<>>
    ELSE Head(regex_map).route_map \o AllRoutes(Tail(regex_map))

MapOk(regex_map) == [ok |-> TRUE, regex_map |-> regex_map, panic |-> ""]
MapPanic(msg) == [ok |-> FALSE, regex_map |-> <<>>, panic |-> msg]

\* An add_route that does not look for the method in the group.
add_route_unchecked(regex_map, variant, route) ==
    LET same == {i \in 1..Len(regex_map) : regex_map[i].regex = route.path.regex}
        entry == [method |-> route.method, variant |-> variant, route |-> route]
    IN  IF same = {}
        THEN MapOk(Append(regex_map, [regex |-> route.path.regex, route_map |-> <<entry>>]))
        ELSE LET i == CHOOSE k \in same : TRUE
             IN  MapOk([regex_map EXCEPT ![i].route_map = Append(regex_map[i].route_map, entry)])

\* PathMap::add_route: the group of the route's regex (a new one at the
\* end when there is none) gets the method, unless it has it already.
add_route(regex_map, variant, route) ==
    LET same == {i \in 1..Len(regex_map) : regex_map[i].regex = route.path.regex}
        entry == [method |-> route.method, variant |-> variant, route |-> route]
    IN  IF same = {}
        THEN MapOk(Append(regex_map, [regex |-> route.path.regex, route_map |-> <<entry>>]))
        ELSE LET i == CHOOSE k \in same : TRUE
                 route_map == regex_map[i].route_map
             IN  IF \E k \in 1..Len(route_map) : route_map[k].method = route.method
                 THEN MapPanic("duplicate route")
                 ELSE MapOk([regex_map EXCEPT ![i].route_map = Append(route_map, entry)])

\* An overlap check that compares only the routes of the same method.
CheckOverlapSameMethod(prev, k, route) ==
    IF \E j \in k..Len(prev) :
           /\ prev[j].method = route.method
           /\ ~matches_same_paths(prev[j].route.path, route.path)
           /\ find_overlap(prev[j].route.path, route.path).tag = "Some"
    THEN "route overlaps with previously defined route"
    ELSE "ok"

\* The overlap check of a new route against the previously registered
\* routes prev[k..] that do not match the same paths: "ok", or the panic.
RECURSIVE CheckOverlap(_, _, _)
CheckOverlap(prev, k, route) ==
    IF k > Len(prev) THEN "ok"
    ELSE IF matches_same_paths(prev[k].route.path, route.path)
    THEN CheckOverlap(prev, k + 1, route)
    ELSE LET ov == find_overlap(prev[k].route.path, route.path)
         IN  IF ov.tag = "Some" THEN "route overlaps with previously defined route"
             ELSE IF ov.tag = "panic" THEN "* path has no segments to iterate over"
             ELSE CheckOverlap(prev, k + 1, route)

\* The first loop of PathMap::build over the routes entries[k..], each
\* [variant, route], in declaration order.
RECURSIVE BuildRoutes(_, _, _)
BuildRoutes(regex_map, entries, k) ==
    IF k > Len(entries) THEN MapOk(regex_map)
    ELSE LET check == CheckOverlap(AllRoutes(regex_map), 1, entries[k].route)
         IN  IF check # "ok" THEN MapPanic(check)
             ELSE LET added == add_route(regex_map, entries[k].variant, entries[k].route)
                  IN  IF ~added.ok THEN added
                      ELSE BuildRoutes(added.regex_map, entries, k + 1)

\* A check that takes any registered HEAD route for an overlapping one.
any_head_registered(heads, k, new_route) ==
    IF heads = <<>> THEN "false" ELSE "true"

\* any_head_overlaps_with: Iterator::any over the HEAD routes heads[k..]
\* of the map; it stops at the first overlap.
RECURSIVE any_head_overlaps_with(_, _, _)
any_head_overlaps_with(heads, k, new_route) ==
    IF k > Len(heads) THEN "false"
    ELSE LET ov == find_overlap(heads[k].route.path, new_route.path)
         IN  IF ov.tag = "Some" THEN "true"
             ELSE IF ov.tag = "panic" THEN "panic"
             ELSE any_head_overlaps_with(heads, k + 1, new_route)

\* An implied HEAD route for every GET route, whatever HEAD routes are
\* registered.
ImpliedHeadRoutesUnchecked(all, heads, k) ==
    LET IsGet(e) == e.method = "GET"
        gets == SelectSeq(SubSeq(all, k, Len(all)), IsGet)
    IN  [ok |-> TRUE,
         routes |-> [i \in 1..Len(gets) |->
                        [variant |-> gets[i].variant,
                         route |-> Route("HEAD", gets[i].route.path)]]]

\* The HEAD routes implied by the GET routes all[k..] of the map: one for
\* every GET route that no registered HEAD route overlaps.
RECURSIVE ImpliedHeadRoutes(_, _, _)
ImpliedHeadRoutes(all, heads, k) ==
    IF k > Len(all) THEN [ok |-> TRUE, routes |-> <<>>]
    ELSE LET later == ImpliedHeadRoutes(all, heads, k + 1)
             head == Route("HEAD", all[k].route.path)
             any == any_head_overlaps_with(heads, 1, head)
         IN  IF all[k].method # "GET" THEN later
             ELSE IF any = "panic" THEN [ok |-> FALSE, routes |-> <<>>]
             ELSE IF ~later.ok THEN later
             ELSE IF any = "true" THEN later
             ELSE [ok |-> TRUE,
                   routes |-> <<[variant |-> all[k].variant, route |-> head]>> \o later.routes]

\* The last loop of PathMap::build: the implied routes are added.
RECURSIVE AddImplied(_, _, _)
AddImplied(regex_map, implied, k) ==
    IF k > Len(implied) THEN MapOk(regex_map)
    ELSE LET added == add_route(regex_map, implied[k].variant, implied[k].route)
         IN  IF ~added.ok THEN added
             ELSE AddImplied(added.regex_map, implied, k + 1)

\* PathMap::build on the routes of the variants, in declaration order.
PathMap_build(entries) ==
    LET built == BuildRoutes(<<>>, entries, 1)
    IN  IF ~built.ok THEN built
        ELSE LET all == AllRoutes(built.regex_map)
                 IsHead(e) == e.method = "HEAD"
                 implied == ImpliedHeadRoutes(all, SelectSeq(all, IsHead), 1)
             IN  IF ~implied.ok THEN MapPanic("* path has no segments to iterate over")
                 ELSE AddImplied(built.regex_map, implied.routes, 1)

\* ------------------------------------------------------------------ generated decoder

\* <T as FromStr>::from_str(s).is_ok() for the field types used here.
from_str_is_ok(ty, s) ==
    IF ty = "u32" THEN s # <<>> /\ \A i \in 1..Len(s) : s[i] \in Digits
    ELSE TRUE

\* all_regexes: the regex of every path of the map, in map order.
all_regexes(regex_map) == [i \in 1..Len(regex_map) |-> regex_map[i].regex]

\* capturing_regexes: REGEXES[i] holds the regex when it captures.
capturing_regex(regex) == captures_len(regex) > 0

\* RegexSet::matches: the indices of the matching regexes.
ROUTES_matches(regexes, path) == {i \in 1..Len(regexes) : is_match(regexes[i], path)}

\* The placeholders of a variant are those of its first route attribute.
VariantPlaceholders(data) ==
    IF data.routes = <<>> THEN <<>>
    ELSE RoutePath_parse(data.routes[1].raw).placeholders

\* variant_matches_path: every placeholder field of the variant parses
\* its captured segment.
variant_matches_path(data, regex, path) ==
    LET placeholders == VariantPlaceholders(data)
        caps == captures(regex, path).caps
    IN  IF placeholders = <<>> THEN TRUE
        ELSE \A i \in 1..Len(placeholders) :
                 from_str_is_ok(data.tys[placeholders[i]], caps[i])

\* The methods of the matched path, whatever their variants accept.
find_all_methods(vs, group, path) ==
    [k \in 1..Len(group.route_map) |-> group.route_map[k].method]

\* find_accepted_methods: the methods of the matched path, all of them
\* when the regex has no captures, else those whose variant accepts the path.
find_accepted_methods(vs, group, path) ==
    IF captures_len(group.regex) = 0
    THEN [k \in 1..Len(group.route_map) |-> group.route_map[k].method]
    ELSE LET Accepts(e) == variant_matches_path(vs[e.variant], group.regex, path)
             accepted == SelectSeq(group.route_map, Accepts)
         IN  [k \in 1..Len(accepted) |-> accepted[k].method]

\* A chain with the guards after the future they are wrapped around.
WrapGuardsInside(reversed, future) ==
    future \o [k \in 1..Len(reversed) |-> [step |-> "guard", field |-> reversed[k]]]

\* The futures construct_variant chains, outermost first: the guards are
\* wrapped last, in reverse, around the body, around the final value.
RECURSIVE WrapGuards(_, _)
WrapGuards(reversed, future) ==
    IF reversed = <<>> THEN future
    ELSE WrapGuards(Tail(reversed), <<[step |-> "guard", field |-> Head(reversed)]>> \o future)

rev(seq) == [i \in 1..Len(seq) |-> seq[Len(seq) + 1 - i]]

\* A chain that reads a body after the #[forward] field decoded.
ChainOfBodyAfterForward(data) ==
    WrapGuards(rev(data.guard_fields),
               IF data.forward_field # <<>>
               THEN <<[step |-> "forward", field |-> 0], [step |-> "body", field |-> 0]>>
               ELSE IF data.body_field THEN <<[step |-> "body", field |-> 0]>> ELSE <<>>)

\* A chain that leaves the #[forward] field out.
ChainOfWithoutForward(data) ==
    WrapGuards(rev(data.guard_fields),
               IF data.body_field THEN <<[step |-> "body", field |-> 0]>> ELSE <<>>)

\* The chain with the guards wrapped in field order, the last declared
\* guard outermost.
ChainOfLastGuardFirst(data) ==
    WrapGuards(data.guard_fields,
               (IF data.forward_field # <<>> THEN <<[step |-> "forward", field |-> 0]>> ELSE <<>>)
               \o (IF data.body_field THEN <<[step |-> "body", field |-> 0]>> ELSE <<>>))

ChainOf(data) ==
    LET construct == <<>>
        body == IF data.body_field
                THEN <<[step |-> "body", field |-> 0]>> \o construct
                ELSE construct
        forward == IF data.forward_field # <<>>
                   THEN <<[step |-> "forward", field |-> 0]>> \o body
                   ELSE body
    IN  WrapGuards(rev(data.guard_fields), forward)

\* ------------------------------------------------------------------ inputs

\* The raw segments route paths are written with: literals (one of them
\* empty, one an asterisk), two placeholders and a "rest" placeholder.
RawSegments ==
    { <<>>, <<"a">>, <<"b">>, <<"*">>,
      <<"{", "x", "}">>, <<"{", "y", "}">>, <<"{", "r", ".", ".", ".", "}">> }

\* A path written from segments: a slash before each.
RECURSIVE Join(_)
Join(segs) == IF segs = <<>> THEN <<>> ELSE <<"/">> \o Head(segs) \o Join(Tail(segs))

PathsOver(segments, n) ==
    { Join(segs) : segs \in UNION { [1..k -> segments] : k \in 1..n } }

\* Route paths as written in attributes: the asterisk, a path without the
\* leading slash, and every path of up to MaxSegments segments.
RawPaths == { <<"*">>, <<"a">> } \cup PathsOver(RawSegments, MaxSegments)

\* The route paths of the routing tables.
TableRaws ==
    { <<"*">>, <<"/">>, <<"/", "a">>, <<"/", "{", "x", "}">>, <<"/", "{", "y", "}">> }

\* The route paths of the single routes.
RouteRaws ==
    { <<"*">> } \cup
    PathsOver({ <<>>, <<"a">>, <<"{", "x", "}">>, <<"{", "r", ".", ".", ".", "}">> }, MaxSegments)

\* The methods of the route attributes, and those of the requests: PUT
\* is a method no route of the tables accepts.
Methods == {"GET", "HEAD", "POST"}
RequestMethods == Methods \cup {"PUT"}

\* The types of the placeholder fields, by field name.
NumberTys == (<<"x">> :> "u32") @@ (<<"y">> :> "String") @@ (<<"r">> :> "String")
StringTys == (<<"x">> :> "String") @@ (<<"y">> :> "u32") @@ (<<"r">> :> "String")

\* The characters of request paths; a request path starts with a slash,
\* or is the asterisk of an OPTIONS request.
PathChars == {"/", "a", "1", "*"}

RequestPaths(n) ==
    { <<"*">> } \cup
    { p \in UNION { [1..k -> PathChars] : k \in 1..n } : p[1] = "/" }

\* The guard fields f1..fn of a variant, in declaration order.
GuardFields(n) == [i \in 1..n |-> i]

\* A variant without a #[forward] field; a forward field is written as the
\* variants of the nested type it decodes.
NoForward == <<>>

\* VariantData, with the types of the variant's fields.
VariantData(method, raw, tys, guards, query, body) ==
    [routes |-> <<[method |-> method, raw |-> raw]>>, tys |-> tys,
     guard_fields |-> guards, query_params_field |-> query, body_field |-> body,
     forward_field |-> NoForward]

\* A variant without route attributes whose #[forward] field decodes the
\* nested type of the variants inner.
ForwardVariant(guards, query, body, inner) ==
    [routes |-> <<>>, tys |-> NumberTys,
     guard_fields |-> guards, query_params_field |-> query, body_field |-> body,
     forward_field |-> inner]

\* ------------------------------------------------------------------ state

VARIABLES
    ovPc,       \* overlap check: "input", then "done"
    ovA, ovB,   \* overlap check: the two route paths as written
    ovAB, ovBA, \* overlap check: find_overlap(A, B) and find_overlap(B, A)
    variants,   \* the variants of the deriving enum, as declared
    pathmap,    \* the PathMap the derive built, or its panic
    forwarded,  \* the PathMap of the nested type of each #[forward] field
    builds,     \* how often the derive has built the PathMap
    pc,         \* "derive", "rejected", "ready", "await", "done"
    request,    \* the request being decoded
    index,      \* the matching regex of the request (0: none)
    variant,    \* the variant the request resolved to (0: none)
    fld,        \* the parsed path segments of the request
    chain,      \* the futures still to run, the awaited one first
    log,        \* the capabilities invoked and completed, in order
    result,     \* the outcome of the decode
    service,    \* the adapter that serves the request, and its wrapper
    stage,      \* "off", "decode", "handler", "panic handler", "returned"
    calls,      \* how often the handler and the panic handler were invoked
    handled,    \* what the future of the handler resolved to
    served,     \* what the future of the adapter resolved to
    outcome,    \* what the future of the called service resolved to
    tasks       \* the decodes that are not being polled

ovVars == <<ovPc, ovA, ovB, ovAB, ovBA>>
decodeVars == <<request, index, variant, fld, chain, log, result>>
serviceVars == <<service, stage, calls, handled, served, outcome>>
vars == <<ovPc, ovA, ovB, ovAB, ovBA, variants, pathmap, forwarded, builds, pc, request, index,
          variant, fld, chain, log, result, service, stage, calls, handled, served,
          outcome, tasks>>

OvUnparsed == [tag |-> "unparsed", path |-> <<>>]
OvPending == [tag |-> "pending", path |-> <<>>]

NoRequest == [method |-> "", path |-> <<>>, query_ok |-> TRUE]
NoResult == [tag |-> "none", kind |-> "", allowed |-> <<>>]
Ok == [tag |-> "Ok", kind |-> "", allowed |-> <<>>]
Err(kind) == [tag |-> "Err", kind |-> kind, allowed |-> <<>>]
WrongMethod(allowed) == [tag |-> "Err", kind |-> "WrongMethod", allowed |-> allowed]
Panic(msg) == [tag |-> "panic", kind |-> msg, allowed |-> <<>>]

NoOverlapCheck ==
    /\ ovPc = "off"
    /\ ovA = <<>>
    /\ ovB = <<>>
    /\ ovAB = OvPending
    /\ ovBA = OvPending

\* What a future of a service resolves to: a response, an error (one of
\* the library's Error type or of another type), or a panic that unwinds
\* out of the poll.
NoOutcome == [tag |-> "none", status |-> "", body |-> "", ours |-> FALSE, error |-> ""]
Response(status, body) ==
    [tag |-> "Ok", status |-> status, body |-> body, ours |-> FALSE, error |-> ""]
Failure(ours, error) ==
    [tag |-> "Err", status |-> "", body |-> "", ours |-> ours, error |-> error]
Unwinding == [tag |-> "panic", status |-> "", body |-> "", ours |-> FALSE, error |-> ""]

NoService ==
    /\ service = [adapter |-> "none", catch_unwind |-> FALSE]
    /\ stage = "off"
    /\ calls = [handler |-> 0, panic_handler |-> 0]
    /\ handled = NoOutcome
    /\ served = NoOutcome
    /\ outcome = NoOutcome
    /\ tasks = <<>>

NoDecode ==
    /\ request = NoRequest
    /\ index = 0
    /\ variant = 0
    /\ fld = <<>>
    /\ chain = <<>>
    /\ log = <<>>
    /\ result = NoResult

\* ------------------------------------------------------------------ overlap check

\* Two route paths are parsed and compared both ways, as PathMap::build
\* compares a new route with a previously registered one.
InitOverlap ==
    /\ ovPc = "input"
    /\ ovA \in RawPaths
    /\ ovB \in RawPaths
    /\ ovAB = OvPending
    /\ ovBA = OvPending
    /\ variants = <<>>
    /\ pathmap = MapOk(<<>>)
    /\ forwarded = <<>>
    /\ builds = 0
    /\ pc = "off"
    /\ NoDecode
    /\ NoService

FindOverlap ==
    /\ ovPc = "input"
    /\ ovPc' = "done"
    /\ LET a == RoutePath_parse(ovA)
           b == RoutePath_parse(ovB)
       IN  IF a.ok /\ b.ok
           THEN /\ ovAB' = find_overlap(a, b)
                /\ ovBA' = find_overlap(b, a)
           ELSE /\ ovAB' = OvUnparsed
                /\ ovBA' = OvUnparsed
    /\ UNCHANGED <<ovA, ovB, variants, pathmap, forwarded, pc>>
    /\ UNCHANGED decodeVars
    /\ UNCHANGED <<serviceVars, tasks, builds>>

NextOverlap == FindOverlap

SpecOverlap == InitOverlap /\ [][NextOverlap]_vars

\* ------------------------------------------------------------------ claims: overlap

OvParsed == ovPc = "done" /\ ovAB.tag # "unparsed"

\* C3: find_overlap is symmetric: for every pair of parsed patterns,
\* the asterisk pattern included, find_overlap(A, B) returns an example
\* exactly when find_overlap(B, A) does, and neither call fails.
C3_OverlapSymmetric ==
    OvParsed =>
        /\ ovAB.tag # "panic"
        /\ ovBA.tag # "panic"
        /\ (ovAB.tag = "Some") <=> (ovBA.tag = "Some")

\* C4: find_overlap is exact with respect to the compiled matchers: an
\* example it returns is matched by the regex of A and by the regex of B,
\* and when it returns none no request path is matched by both.
C4_OverlapExact ==
    OvParsed =>
        LET a == RoutePath_parse(ovA)
            b == RoutePath_parse(ovB)
        IN  /\ ovAB.tag = "Some" =>
                   is_match(a.regex, ovAB.path) /\ is_match(b.regex, ovAB.path)
            /\ ovAB.tag = "None" =>
                   \A p \in RequestPaths(MaxLongPathLen) :
                       ~(is_match(a.regex, p) /\ is_match(b.regex, p))

\* ------------------------------------------------------------------ derive

\* The route attributes of the variants, parsed, in declaration order.
ParsedRoutes(vs) ==
    LET Routed(v) == vs[v].routes # <<>>
        routed == SelectSeq([v \in 1..Len(vs) |-> v], Routed)
    IN  [k \in 1..Len(routed) |->
            [variant |-> routed[k],
             parsed |-> RoutePath_parse(vs[routed[k]].routes[1].raw),
             method |-> vs[routed[k]].routes[1].method]]

\* derive_from_request up to the PathMap: the variants are parsed (a bad
\* route path panics) and the map is built.
PathMapOf(vs) ==
    LET parsed == ParsedRoutes(vs)
    IN  IF \E v \in 1..Len(parsed) : ~parsed[v].parsed.ok
        THEN MapPanic("invalid route path")
        ELSE PathMap_build([v \in 1..Len(parsed) |->
                 [variant |-> parsed[v].variant,
                  route |-> Route(parsed[v].method, parsed[v].parsed)]])

\* VariantData::constructible: the variant has a route attribute or a
\* #[forward] field.
constructible(data) == data.routes # <<>> \/ data.forward_field # NoForward

\* The fallback variants of a type: those with a #[forward] field and no
\* route attribute.
Fallbacks(vs) ==
    {v \in 1..Len(vs) : vs[v].routes = <<>> /\ vs[v].forward_field # NoForward}

\* VariantData::parse panics on a variant with a #[body] field and a
\* #[forward] field.
body_and_forward(data) == data.body_field /\ data.forward_field # NoForward

\* PathMap::build panics on a second fallback variant.
multiple_fallbacks(vs) == Cardinality(Fallbacks(vs)) > 1

\* PathMap::fallback: the fallback variant of the type (0 without one).
fallback(vs) == IF Fallbacks(vs) = {} THEN 0 ELSE CHOOSE v \in Fallbacks(vs) : TRUE

\* A derive whose map has its paths in another order on every build
\* after the first.
derive_in_hash_order(vs) ==
    LET built == PathMapOf(vs)
    IN  IF built.ok /\ builds > 0
        THEN MapOk([i \in 1..Len(built.regex_map) |->
                       built.regex_map[Len(built.regex_map) + 1 - i]])
        ELSE built

\* derive_from_request on a type, and on the nested types its #[forward]
\* fields decode: the PathMap of the type, or the panic of a derive.
RECURSIVE derive_from_request(_)
derive_from_request(vs) ==
    IF \E v \in 1..Len(vs) : body_and_forward(vs[v])
    THEN MapPanic("#[body] and #[forward] cannot be combined")
    ELSE IF multiple_fallbacks(vs)
    THEN MapPanic("cannot define multiple fallback variants")
    ELSE LET built == PathMapOf(vs)
         IN  IF ~built.ok THEN built
             ELSE IF \A v \in 1..Len(vs) : ~constructible(vs[v])
             THEN MapPanic("must be constructible")
             ELSE IF \E v \in 1..Len(vs) :
                        /\ vs[v].forward_field # NoForward
                        /\ ~derive_from_request(vs[v].forward_field).ok
             THEN MapPanic("the derive of a forwarded type panics")
             ELSE built

\* The PathMap of the nested type of every variant with a #[forward]
\* field: the statics of the nested type's generated decoder.
ForwardedMaps(vs) ==
    [v \in 1..Len(vs) |->
        IF vs[v].forward_field = NoForward THEN <<>>
        ELSE derive_from_request(vs[v].forward_field).regex_map]

Derive ==
    /\ pc = "derive"
    /\ pathmap' = derive_from_request(variants)
    /\ forwarded' = IF pathmap'.ok THEN ForwardedMaps(variants) ELSE <<>>
    /\ pc' = IF pathmap'.ok THEN "ready" ELSE "rejected"
    /\ builds' = builds + 1
    /\ UNCHANGED <<variants>>
    /\ UNCHANGED ovVars
    /\ UNCHANGED decodeVars
    /\ UNCHANGED <<serviceVars, tasks>>

\* The derive runs on the type, for the first time or again as in
\* another compilation of the crate: PathMap::build starts from an empty
\* map every time.
Rebuild ==
    /\ pc \in {"derive", "ready", "rejected"}
    /\ builds < MaxBuilds
    /\ pathmap' = derive_from_request(variants)
    /\ forwarded' = IF pathmap'.ok THEN ForwardedMaps(variants) ELSE <<>>
    /\ pc' = IF pathmap'.ok THEN "ready" ELSE "rejected"
    /\ builds' = builds + 1
    /\ UNCHANGED <<variants>>
    /\ UNCHANGED ovVars
    /\ UNCHANGED decodeVars
    /\ UNCHANGED <<serviceVars, tasks>>

\* ------------------------------------------------------------------ from_request_and_body

Min(S) == CHOOSE i \in S : \A j \in S : i <= j

\* matching_regex: the first matching regex; debug_assert! panics on a
\* second match when the build has debug assertions.
matching_regex(regex_map, path, debug_assertions) ==
    LET matches == ROUTES_matches(all_regexes(regex_map), path)
    IN  IF regex_map = <<>> THEN [ok |-> TRUE, index |-> 0]
        ELSE IF debug_assertions /\ Cardinality(matches) > 1
        THEN [ok |-> FALSE, index |-> 0]
        ELSE [ok |-> TRUE, index |-> IF matches = {} THEN 0 ELSE Min(matches)]

\* No arm for any method: every request goes on to the arm after them.
MethodArmNone(regex_map, i, method) == 0

\* The arms of `match (index, method)`: the variant of the method in the
\* matched path's method map (0 when the method is not in it).
MethodArm(regex_map, i, method) ==
    LET route_map == regex_map[i].route_map
        arms == {k \in 1..Len(route_map) : route_map[k].method = method}
    IN  IF arms = {} THEN 0 ELSE route_map[Min(arms)].variant

\* The captured segments, taken without parsing them.
ParsePlaceholdersUnchecked(data, regex_map, i, path) ==
    IF VariantPlaceholders(data) = <<>> THEN [ok |-> TRUE, fld |-> <<>>]
    ELSE [ok |-> TRUE, fld |-> captures(regex_map[i].regex, path).caps]

\* The placeholder part of construct_variant: the captured segments when
\* every one parses as its field's type.
ParsePlaceholders(data, regex_map, i, path) ==
    LET placeholders == VariantPlaceholders(data)
    IN  IF placeholders = <<>> THEN [ok |-> TRUE, fld |-> <<>>]
        ELSE LET caps == captures(regex_map[i].regex, path).caps
             IN  IF \A k \in 1..Len(placeholders) :
                        from_str_is_ok(data.tys[placeholders[k]], caps[k])
                 THEN [ok |-> TRUE, fld |-> caps]
                 ELSE [ok |-> FALSE, fld |-> <<>>]

Invoke(future) == [ev |-> "invoke", step |-> future.step, field |-> future.field]
Completed(future, ok) ==
    [ev |-> IF ok THEN "ok" ELSE "err", step |-> future.step, field |-> future.field]

\* The decode ends at once with `res`.
Return(res) ==
    /\ result' = res
    /\ pc' = "done"
    /\ chain' = <<>>
    /\ log' = <<>>

\* A construct_variant that deserializes the query parameters before it
\* parses the placeholders.
ConstructVariantQueryFirst(v, i, req) ==
    LET data == variants[v]
        parsed == ParsePlaceholders(data, pathmap.regex_map, i, req.path)
        futures == ChainOf(data)
    IN  /\ variant' = v
        /\ IF data.query_params_field /\ ~req.query_ok
           THEN fld' = <<>> /\ Return(Err("QueryParam"))
           ELSE IF ~parsed.ok
           THEN fld' = <<>> /\ Return(Err("PathSegment"))
           ELSE /\ fld' = parsed.fld
                /\ IF futures = <<>>
                   THEN Return(Ok)
                   ELSE /\ chain' = futures
                        /\ log' = <<Invoke(Head(futures))>>
                        /\ result' = NoResult
                        /\ pc' = "await"

\* A construct_variant that resolves a request to no variant when its
\* query string does not deserialize.
ConstructVariantByQuery(v, i, req) ==
    LET data == variants[v]
        parsed == ParsePlaceholders(data, pathmap.regex_map, i, req.path)
        futures == ChainOf(data)
    IN  IF data.query_params_field /\ ~req.query_ok
        THEN variant' = 0 /\ fld' = <<>> /\ Return(Err("NoMatchingRoute"))
        ELSE /\ variant' = v
             /\ IF ~parsed.ok
                THEN fld' = <<>> /\ Return(Err("PathSegment"))
                ELSE /\ fld' = parsed.fld
                     /\ IF futures = <<>>
                        THEN Return(Ok)
                        ELSE /\ chain' = futures
                             /\ log' = <<Invoke(Head(futures))>>
                             /\ result' = NoResult
                             /\ pc' = "await"

\* construct_variant: placeholders, query parameters, then the chain of
\* futures, whose first capability is invoked at once.
ConstructVariant(v, i, req) ==
    LET data == variants[v]
        parsed == ParsePlaceholders(data, pathmap.regex_map, i, req.path)
        futures == ChainOf(data)
    IN  /\ variant' = v
        /\ IF ~parsed.ok
           THEN fld' = <<>> /\ Return(Err("PathSegment"))
           ELSE /\ fld' = parsed.fld
                /\ IF data.query_params_field /\ ~req.query_ok
                   THEN Return(Err("QueryParam"))
                   ELSE IF futures = <<>>
                   THEN Return(Ok)
                   ELSE /\ chain' = futures
                        /\ log' = <<Invoke(Head(futures))>>
                        /\ result' = NoResult
                        /\ pc' = "await"

\* The generated from_request_and_body, up to the first future it awaits.
from_request_and_body(paths) ==
    /\ pc = "ready"
    /\ \E method \in RequestMethods, path \in paths, query_ok \in BOOLEAN, debug_assertions \in BOOLEAN :
        LET req == [method |-> method, path |-> path, query_ok |-> query_ok]
            matched == matching_regex(pathmap.regex_map, path, debug_assertions)
            i == matched.index
            v == IF i = 0 THEN 0 ELSE MethodArm(pathmap.regex_map, i, method)
            fb == fallback(variants)
        IN  /\ request' = req
            /\ index' = i
            /\ IF ~matched.ok
               THEN /\ variant' = 0 /\ fld' = <<>>
                    /\ Return(Panic("internal error: FromRequest derive produced overlapping regexes"))
               ELSE IF i = 0
               THEN IF fb # 0 THEN ConstructVariant(fb, i, req)
                    ELSE /\ variant' = 0 /\ fld' = <<>>
                         /\ Return(Err("NoMatchingRoute"))
               ELSE IF v = 0
               THEN IF fb # 0 THEN ConstructVariant(fb, i, req)
                    ELSE /\ variant' = 0 /\ fld' = <<>>
                         /\ Return(WrongMethod(
                                find_accepted_methods(variants, pathmap.regex_map[i], path)))
               ELSE ConstructVariant(v, i, req)
    /\ UNCHANGED <<variants, pathmap, forwarded>>
    /\ UNCHANGED ovVars
    /\ UNCHANGED <<serviceVars, tasks, builds>>

\* A closure that turns every error of the fallback into WrongMethod with
\* the methods of the matched path.
map_err_any_kind(e) ==
    IF index # 0 /\ variant = fallback(variants)
    THEN WrongMethod(find_accepted_methods(variants, pathmap.regex_map[index], request.path)
                     \o e.allowed)
    ELSE e

\* A closure that puts the methods of the nested type first.
map_err_inner_first(e) ==
    IF index # 0 /\ variant = fallback(variants) /\ e.kind = "WrongMethod"
    THEN WrongMethod(e.allowed
                     \o find_accepted_methods(variants, pathmap.regex_map[index], request.path))
    ELSE e

\* The error the outer decode returns for the error e of the future of
\* its fallback variant: the map_err closure of the arm of a matched path
\* with another method puts the accepted methods of the path before those
\* of a WrongMethod error; every other error, and every error of the other
\* arms, is returned as it is.
map_err(e) ==
    IF index # 0 /\ variant = fallback(variants) /\ e.kind = "WrongMethod"
    THEN WrongMethod(find_accepted_methods(variants, pathmap.regex_map[index], request.path)
                     \o e.allowed)
    ELSE e

\* The futures of a variant of the nested type, which has guards and a
\* body but no #[forward] field of its own.
NestedChainOf(data) ==
    LET futures == ChainOf(data)
    IN  [k \in 1..Len(futures) |->
            [step |-> IF futures[k].step = "guard" THEN "nested guard" ELSE "nested body",
             field |-> futures[k].field]]

\* The forward future runs: from_request_and_body of the nested type is
\* called with the request, the body and the context of the outer decode,
\* up to the first future it awaits.
Forward ==
    /\ pc = "await"
    /\ Head(chain).step = "forward"
    /\ \E debug_assertions \in BOOLEAN :
        LET inner == variants[variant].forward_field
            inner_map == forwarded[variant]
            matched == matching_regex(inner_map, request.path, debug_assertions)
            i == matched.index
            v == IF i = 0 THEN 0 ELSE MethodArm(inner_map, i, request.method)
            parsed == ParsePlaceholders(inner[v], inner_map, i, request.path)
            futures == NestedChainOf(inner[v]) \o Tail(chain)
            Fail(e) == /\ log' = Append(log, [ev |-> "err", step |-> "forward", field |-> v])
                       /\ chain' = <<>>
                       /\ result' = e
                       /\ pc' = "done"
        IN  IF ~matched.ok
            THEN Fail(Panic("internal error: FromRequest derive produced overlapping regexes"))
            ELSE IF i = 0
            THEN Fail(map_err(Err("NoMatchingRoute")))
            ELSE IF v = 0
            THEN Fail(map_err(WrongMethod(find_accepted_methods(inner, inner_map[i], request.path))))
            ELSE IF ~parsed.ok
            THEN Fail(map_err(Err("PathSegment")))
            ELSE IF inner[v].query_params_field /\ ~request.query_ok
            THEN Fail(map_err(Err("QueryParam")))
            ELSE LET selected == Append(log, [ev |-> "ok", step |-> "forward", field |-> v])
                 IN  IF futures = <<>>
                     THEN /\ log' = selected
                          /\ chain' = <<>>
                          /\ result' = Ok
                          /\ pc' = "done"
                     ELSE /\ log' = Append(selected, Invoke(Head(futures)))
                          /\ chain' = futures
                          /\ result' = NoResult
                          /\ pc' = "await"
    /\ UNCHANGED <<variants, pathmap, forwarded, request, index, variant, fld>>
    /\ UNCHANGED ovVars
    /\ UNCHANGED <<serviceVars, tasks, builds>>

\* A chain that awaits the failed capability again.
CompleteOrRetry ==
    /\ pc = "await"
    /\ Head(chain).step # "forward"
    /\ \E ok \in BOOLEAN :
        LET done == Append(log, Completed(Head(chain), ok))
        IN  IF ~ok
            THEN /\ log' = IF Len(log) < 2 * (MaxGuards + 2) THEN done ELSE log
                 /\ UNCHANGED <<chain, result, pc>>
            ELSE IF Tail(chain) = <<>>
            THEN /\ log' = done
                 /\ chain' = <<>>
                 /\ result' = Ok
                 /\ pc' = "done"
            ELSE /\ log' = Append(done, Invoke(Head(Tail(chain))))
                 /\ chain' = Tail(chain)
                 /\ result' = NoResult
                 /\ pc' = "await"
    /\ UNCHANGED <<variants, pathmap, forwarded, request, index, variant, fld>>
    /\ UNCHANGED ovVars
    /\ UNCHANGED <<serviceVars, tasks, builds>>

\* The awaited future completes: and_then runs the next future of the
\* chain on success, and the error ends the decode otherwise.
Complete ==
    /\ pc = "await"
    /\ Head(chain).step # "forward"
    /\ \E ok \in BOOLEAN :
        LET done == Append(log, Completed(Head(chain), ok))
        IN  IF ~ok
            THEN /\ log' = done
                 /\ chain' = <<>>
                 /\ result' = map_err(Err(IF Head(chain).step \in {"guard", "nested guard"}
                                          THEN "Guard" ELSE "Body"))
                 /\ pc' = "done"
            ELSE IF Tail(chain) = <<>>
            THEN /\ log' = done
                 /\ chain' = <<>>
                 /\ result' = Ok
                 /\ pc' = "done"
            ELSE /\ log' = Append(done, Invoke(Head(Tail(chain))))
                 /\ chain' = Tail(chain)
                 /\ result' = NoResult
                 /\ pc' = "await"
    /\ UNCHANGED <<variants, pathmap, forwarded, request, index, variant, fld>>
    /\ UNCHANGED ovVars
    /\ UNCHANGED <<serviceVars, tasks, builds>>

\* A drop that leaves the futures of the decode running.
DropDetached ==
    /\ pc = "await"
    /\ log' = Append(log, [ev |-> "drop", step |-> Head(chain).step,
                           field |-> Head(chain).field])
    /\ UNCHANGED <<pc, chain, result>>
    /\ UNCHANGED <<variants, pathmap, forwarded, request, index, variant, fld>>
    /\ UNCHANGED ovVars
    /\ UNCHANGED <<serviceVars, tasks, builds>>

\* The caller drops the future of the decode while it awaits a
\* capability: the futures of the chain are dropped with it, the awaited
\* one and those and_then has not made yet, and nothing polls them again.
Drop ==
    /\ pc = "await"
    /\ log' = Append(log, [ev |-> "drop", step |-> Head(chain).step,
                           field |-> Head(chain).field])
    /\ chain' = <<>>
    /\ pc' = "dropped"
    /\ UNCHANGED <<result>>
    /\ UNCHANGED <<variants, pathmap, forwarded, request, index, variant, fld>>
    /\ UNCHANGED ovVars
    /\ UNCHANGED <<serviceVars, tasks, builds>>

\* ------------------------------------------------------------------ service.rs

\* The errors the generated decoder makes itself are of the library's
\* Error type; the error of a guard or of a body decoder is the boxed
\* error of the capability, of the library's type or of another.
OursOf(kind) ==
    IF kind \in {"NoMatchingRoute", "WrongMethod", "PathSegment", "QueryParam"}
    THEN {TRUE} ELSE BOOLEAN

\* crate::blocking: the future of a closure run on the blocking thread
\* pool resolves to what the closure returns or panics with, or fails with
\* the error of the pool.
blocking(returns) == returns \cup {Failure(FALSE, "blocking")}

\* What the handler of an adapter resolves to: the asynchronous handler
\* returns a future of a response or of a boxed error; the synchronous
\* handler returns a response and runs on the blocking thread pool. Either
\* may panic.
HandlerResults(adapter) ==
    LET responses == {Response("200", "content"), Response("200", "empty")}
    IN  IF adapter = "async"
        THEN responses \cup {Failure(TRUE, "handler"), Failure(FALSE, "handler"), Unwinding}
        ELSE blocking(responses \cup {Unwinding})

\* A map closure that returns every response as it is.
map_unchanged(is_head, response) == response

\* The map closure of call: the response to a HEAD request gets an empty
\* body.
map(is_head, response) ==
    IF is_head THEN [response EXCEPT !.body = "empty"] ELSE response

\* Error::response with an empty body: the response of the error err.
ErrorResponse(err) ==
    [tag |-> "Ok", status |-> err.error, body |-> "empty", ours |-> err.ours,
     error |-> err.error]

\* An or_else closure that turns every error into a response.
or_else_any(err) == ErrorResponse(err)

\* The or_else closure of call: an error of the library's Error type
\* becomes its response with an empty body, another error stays an error.
or_else(err) ==
    IF err.ours THEN ErrorResponse(err) ELSE err

\* A wrapper that hands the panic on.
then_uncaught(res, c) ==
    /\ served' = res
    /\ calls' = c
    /\ stage' = "returned"
    /\ outcome' = res

\* The future of the adapter resolves to res, with the invocations c so
\* far: CatchUnwind calls the panic handler with the payload of a panic
\* and resolves to the result of the adapter otherwise; without the
\* wrapper the result of the adapter is the outcome of the call.
then(res, c) ==
    /\ served' = res
    /\ IF service.catch_unwind /\ res.tag = "panic"
       THEN /\ calls' = [c EXCEPT !.panic_handler = @ + 1]
            /\ stage' = "panic handler"
            /\ outcome' = NoOutcome
       ELSE /\ calls' = c
            /\ stage' = "returned"
            /\ outcome' = res

\* A capability panics while the decode awaits it: the panic unwinds
\* out of the future of the decode.
CapabilityPanics ==
    /\ stage = "decode"
    /\ pc = "await"
    /\ log' = Append(log, [ev |-> "panic", step |-> Head(chain).step,
                           field |-> Head(chain).field])
    /\ chain' = <<>>
    /\ result' = Panic("a capability panicked")
    /\ pc' = "done"
    /\ UNCHANGED <<variants, pathmap, forwarded, request, index, variant, fld>>
    /\ UNCHANGED ovVars
    /\ UNCHANGED <<serviceVars, tasks, builds>>

\* The future of the decode resolved to res: and_then calls the handler
\* with the decoded value, or_else answers an error, and a panic unwinds
\* out of the poll.
decoded(res) ==
    IF res.tag = "Ok"
    THEN /\ calls' = [calls EXCEPT !.handler = @ + 1]
         /\ stage' = "handler"
         /\ UNCHANGED <<handled, served, outcome>>
    ELSE IF res.tag = "panic"
    THEN then(Unwinding, calls) /\ UNCHANGED handled
    ELSE \E ours \in OursOf(res.kind) :
            then(or_else(Failure(ours, res.kind)), calls) /\ UNCHANGED handled

\* AsyncService::call and SyncService::call after the decode: the
\* combinators run in the poll that resolves the future of the decode.
Decoded ==
    /\ stage = "decode"
    /\ pc = "done"
    /\ decoded(result)
    /\ UNCHANGED <<service, tasks, variants, pathmap, forwarded, builds, pc>>
    /\ UNCHANGED ovVars
    /\ UNCHANGED decodeVars

\* The future of the handler resolves: map and or_else make the result
\* of the adapter of it.
HandlerDone ==
    /\ stage = "handler"
    /\ \E h \in HandlerResults(service.adapter) :
        /\ handled' = h
        /\ then(IF h.tag = "Ok" THEN map(request.method = "HEAD", h)
                ELSE IF h.tag = "Err" THEN or_else(h)
                ELSE h, calls)
    /\ UNCHANGED <<service, tasks, variants, pathmap, forwarded, builds, pc>>
    /\ UNCHANGED ovVars
    /\ UNCHANGED decodeVars

\* The future of the panic handler resolves: its result is the outcome
\* of the call, and its panic is not caught again.
PanicHandlerDone ==
    /\ stage = "panic handler"
    /\ outcome' \in {Response("500", "content"), Failure(FALSE, "panic handler"),
                     Failure(TRUE, "panic handler"), Unwinding}
    /\ stage' = "returned"
    /\ UNCHANGED <<service, calls, handled, served, tasks, variants, pathmap, forwarded, builds, pc>>
    /\ UNCHANGED ovVars
    /\ UNCHANGED decodeVars

\* ------------------------------------------------------------------ concurrent decodes

\* The future of a decode that is not being polled: everything the
\* future owns, which is all a decode reads besides the statics.
Fresh ==
    [pc |-> "ready", request |-> NoRequest, index |-> 0, variant |-> 0, fld |-> <<>>,
     chain |-> <<>>, log |-> <<>>, result |-> NoResult]

Polled ==
    [pc |-> pc, request |-> request, index |-> index, variant |-> variant, fld |-> fld,
     chain |-> chain, log |-> log, result |-> result]

\* A poll that finds the log of the decode polled before it.
ResumeSharedLog(task) ==
    /\ pc' = task.pc
    /\ request' = task.request
    /\ index' = task.index
    /\ variant' = task.variant
    /\ fld' = task.fld
    /\ chain' = task.chain
    /\ log' = log
    /\ result' = task.result

\* The executor polls the future task: the decode goes on with what its
\* own future holds.
Resume(task) ==
    /\ pc' = task.pc
    /\ request' = task.request
    /\ index' = task.index
    /\ variant' = task.variant
    /\ fld' = task.fld
    /\ chain' = task.chain
    /\ log' = task.log
    /\ result' = task.result

\* The executor turns from the decode it polled to another one: the
\* futures of the calls of the service are polled in any order.
Switch ==
    /\ pc \in {"ready", "await", "done"}
    /\ \E i \in 1..Len(tasks) :
        /\ tasks' = [tasks EXCEPT ![i] = Polled]
        /\ Resume(tasks[i])
    /\ UNCHANGED <<variants, pathmap, forwarded, builds>>
    /\ UNCHANGED ovVars
    /\ UNCHANGED serviceVars

\* ------------------------------------------------------------------ claims: tables

\* The declared route of variant v: its method and its pattern's segments.
DeclMethod(v) == variants[v].routes[1].method
DeclSegments(v) == RoutePath_parse(variants[v].routes[1].raw).segments

\* Equivalent patterns: the same segments, placeholder names ignored.
Equivalent(a, b) ==
    /\ Len(a) = Len(b)
    /\ \A i \in 1..Len(a) :
           /\ a[i].kind = b[i].kind
           /\ a[i].kind = "Literal" => a[i].text = b[i].text

\* The variants declared on the pattern of the matched group, and those
\* among them that declare method m.
MatchedVariants ==
    LET anchor == pathmap.regex_map[index].route_map[1].variant
    IN  {v \in 1..Len(variants) : Equivalent(DeclSegments(v), DeclSegments(anchor))}
Declares(m) == {v \in MatchedVariants : DeclMethod(v) = m}

\* The position of the n-th slash of a path (0 when it has fewer).
NthSlash(path, n) ==
    LET at == {k \in 1..Len(path) :
                  path[k] = "/" /\ Cardinality({j \in 1..k : path[j] = "/"}) = n}
    IN  IF at = {} THEN 0 ELSE CHOOSE k \in at : TRUE

\* The text of the n-th segment of a path, and all the text after its
\* n-th slash.
PieceOf(path, n) ==
    LET from == NthSlash(path, n)
        to == NthSlash(path, n + 1)
    IN  SubSeq(path, from + 1, IF to = 0 THEN Len(path) ELSE to - 1)
RestOf(path, n) == SubSeq(path, NthSlash(path, n) + 1, Len(path))

\* A pattern matches a path, segment by segment.
PatternMatches(segs, path) ==
    IF segs = <<>> THEN path = <<"*">>
    ELSE /\ path # <<>> /\ path[1] = "/"
         /\ \A i \in 1..Len(segs) :
                /\ NthSlash(path, i) # 0
                /\ segs[i].kind = "Literal" => PieceOf(path, i) = segs[i].text
                /\ segs[i].kind = "Placeholder" => PieceOf(path, i) # <<>>
         /\ segs[Len(segs)].kind # "Rest" => NthSlash(path, Len(segs) + 1) = 0

\* The text a path gives to the placeholder segments of a pattern.
CapturedBy(segs, path) ==
    LET at == {i \in 1..Len(segs) : segs[i].kind \in {"Placeholder", "Rest"}}
        Nth(n) == CHOOSE i \in at : Cardinality({j \in at : j <= i}) = n
    IN  [n \in 1..Cardinality(at) |->
            IF segs[Nth(n)].kind = "Rest" THEN RestOf(path, Nth(n))
            ELSE PieceOf(path, Nth(n))]

\* The placeholder fields of variant v all parse what the path gives them.
LeafAccepts(v, path) ==
    LET segs == DeclSegments(v)
        names == PlaceholdersOf(segs)
        texts == CapturedBy(segs, path)
    IN  \A n \in 1..Len(names) :
            variants[v].tys[names[n]] = "u32" =>
                texts[n] # <<>> /\ \A k \in 1..Len(texts[n]) : texts[n][k] \in {"0", "1"}

\* C2: for every route table that is built successfully and every request
\* path, at most one pattern-group's compiled matcher matches the path.
C2_AtMostOneMatch ==
    pc = "ready" =>
        \A p \in RequestPaths(MaxPathLen) :
            Cardinality(ROUTES_matches(all_regexes(pathmap.regex_map), p)) <= 1

\* C6: in a built table, a HEAD request whose path matched a group that
\* declares GET and no HEAD resolves to the variant the GET route is on.
C6_ImplicitHead ==
    (pc = "done" /\ index # 0 /\ request.method = "HEAD"
        /\ Declares("GET") # {} /\ Declares("HEAD") = {}) =>
        /\ variant \in Declares("GET")
        /\ result.kind \notin {"WrongMethod", "NoMatchingRoute"}

\* A HEAD request resolved to a GET route's variant while another pattern
\* of the table declares HEAD.
C6_Witness ==
    /\ pc = "done" /\ result = Ok /\ request.method = "HEAD"
    /\ variant # 0 /\ DeclMethod(variant) = "GET"
    /\ \E w \in 1..Len(variants) : DeclMethod(w) = "HEAD"

\* C7: an explicitly declared HEAD route is never replaced or shadowed by
\* a synthesized one: in a group that declares GET and HEAD on different
\* variants a HEAD request resolves to the HEAD variant and a GET request
\* to the GET variant, and the build reports a duplicate route only for
\* two declared routes of equivalent patterns and the same method.
C7_ExplicitHeadKept ==
    /\ (pc = "done" /\ index # 0 /\ Declares("GET") # {} /\ Declares("HEAD") # {}) =>
           /\ request.method = "HEAD" => variant \in Declares("HEAD")
           /\ request.method = "GET" => variant \in Declares("GET")
    /\ (pc = "rejected" /\ pathmap.panic = "duplicate route") =>
           \E v, w \in 1..Len(variants) :
               /\ v # w
               /\ DeclMethod(v) = DeclMethod(w)
               /\ Equivalent(DeclSegments(v), DeclSegments(w))

\* A HEAD request resolved to the declared HEAD variant of a group whose
\* GET route is on another variant.
C7_Witness ==
    /\ pc = "done" /\ result = Ok /\ request.method = "HEAD" /\ index # 0
    /\ variant # 0 /\ DeclMethod(variant) = "HEAD"
    /\ Declares("GET") # {}

\* The method map of the matched group as the claim describes it: the
\* declared methods in declaration order, then the implied HEAD, each
\* with the variant it leads to.
DeclaredMap ==
    LET InGroup(v) == v \in MatchedVariants
        declared == SelectSeq([v \in 1..Len(variants) |-> v], InGroup)
        explicit == [k \in 1..Len(declared) |->
                        [method |-> DeclMethod(declared[k]), leaf |-> declared[k]]]
    IN  IF Declares("GET") # {} /\ Declares("HEAD") = {}
        THEN Append(explicit,
                    [method |-> "HEAD", leaf |-> CHOOSE v \in Declares("GET") : TRUE])
        ELSE explicit

ExpectedAllowed ==
    LET Accepted(e) == LeafAccepts(e.leaf, request.path)
        accepted == SelectSeq(DeclaredMap, Accepted)
    IN  [k \in 1..Len(accepted) |-> accepted[k].method]

\* C8: a request whose path matched a group and whose method is not in the
\* group's method map fails with WrongMethod, and the allowed list is, in
\* method-map order, the methods whose variant's placeholder types all
\* parse the captured segments (all methods without placeholders).
C8_WrongMethodAllowed ==
    (pc = "done" /\ index # 0
        /\ \A k \in 1..Len(DeclaredMap) : DeclaredMap[k].method # request.method) =>
        result = WrongMethod(ExpectedAllowed)

\* A wrong-method error whose list names a declared method and the implied
\* HEAD, and one whose list leaves out a method of the group.
C8_Witness ==
    /\ pc = "done" /\ index # 0 /\ result.kind = "WrongMethod"
    /\ Len(result.allowed) = 1 /\ Len(DeclaredMap) = 3

C5_AsteriskExact ==
    (pc = "done" /\ variants[1].routes[1].raw = <<"*">>) =>
        (index # 0 <=> request.path = <<"*">>)

\* C10: a rest placeholder captures all the text after the slash before it,
\* empty or with further slashes, and a path without that slash does not
\* match.
C10_RestCapture ==
    LET segs == DeclSegments(1)
        n == Len(segs)
    IN  (pc = "done" /\ segs # <<>> /\ segs[n].kind = "Rest") =>
            /\ index # 0 <=> PatternMatches(segs, request.path)
            /\ NthSlash(request.path, n) = 0 => result = Err("NoMatchingRoute")
            /\ result = Ok => fld[Len(fld)] = RestOf(request.path, n)
            /\ (index # 0 /\ request.method = "GET") =>
                   result = IF LeafAccepts(1, request.path) THEN Ok ELSE Err("PathSegment")

\* The pattern of a placeholder and a rest placeholder took a path whose
\* remainder has a slash in it.
C10_Witness ==
    /\ pc = "done" /\ result = Ok
    /\ variants[1].routes[1].raw = <<"/", "{", "x", "}", "/", "{", "r", ".", ".", ".", "}">>
    /\ \E k \in 1..Len(fld[2]) : fld[2][k] = "/"

\* ------------------------------------------------------------------ claims: guards

\* The fields of the guards the decode has invoked so far, in order.
InvokedGuards ==
    LET IsGuardInvoke(e) == e.ev = "invoke" /\ e.step = "guard"
        invoked == SelectSeq(log, IsGuardInvoke)
    IN  [k \in 1..Len(invoked) |-> invoked[k].field]

\* C1: the guards of a variant are invoked in declaration order, each only
\* after the one before it succeeded, and none after one that failed.
C1_GuardOrder ==
    variant # 0 =>
        LET guards == variants[variant].guard_fields
        IN  /\ Len(InvokedGuards) <= Len(guards)
            /\ \A k \in 1..Len(InvokedGuards) : InvokedGuards[k] = guards[k]
            /\ \A i \in 1..Len(log) :
                   /\ log[i].ev = "err" => i = Len(log)
                   /\ (log[i].ev = "invoke" /\ i > 1) => log[i - 1].ev = "ok"
            /\ result = Ok => Len(InvokedGuards) = Len(guards)

\* The first of two guards failed and the decode ended there.
C1_Witness ==
    /\ pc = "done" /\ variant # 0 /\ result = Err("Guard")
    /\ Len(variants[variant].guard_fields) = 2
    /\ InvokedGuards = <<variants[variant].guard_fields[1]>>

\* ------------------------------------------------------------------ claims: forwarding

\* The routed variants of a type, the pattern and the method each declares.
Routed(vs) == {v \in 1..Len(vs) : vs[v].routes # <<>>}
SegmentsIn(vs, v) == RoutePath_parse(vs[v].routes[1].raw).segments
MethodIn(vs, v) == vs[v].routes[1].method

\* The routed variants of a type whose pattern matches the path, and the
\* one among them that an entry for the method leads to: the variant that
\* declares the method, or the one that declares GET for a HEAD request
\* when none declares HEAD.
MatchingIn(vs, path) == {v \in Routed(vs) : PatternMatches(SegmentsIn(vs, v), path)}
DeclaringIn(vs, path, m) == {v \in MatchingIn(vs, path) : MethodIn(vs, v) = m}
LeafsIn(vs, path, m) ==
    IF DeclaringIn(vs, path, m) # {} THEN DeclaringIn(vs, path, m)
    ELSE IF m = "HEAD" THEN DeclaringIn(vs, path, "GET")
    ELSE {}

\* The placeholder fields of variant v of the type parse what the path
\* gives them.
AcceptsIn(vs, v, path) ==
    LET segs == SegmentsIn(vs, v)
        names == PlaceholdersOf(segs)
        texts == CapturedBy(segs, path)
    IN  \A n \in 1..Len(names) :
            vs[v].tys[names[n]] = "u32" =>
                texts[n] # <<>> /\ \A k \in 1..Len(texts[n]) : texts[n][k] \in {"0", "1"}

\* The allowed methods of the type for a path that matches a pattern of
\* it: the declared methods in declaration order, then the implied HEAD,
\* of the variants that accept the path.
AllowedIn(vs, path) ==
    LET Matching(v) == v \in MatchingIn(vs, path)
        declared == SelectSeq([v \in 1..Len(vs) |-> v], Matching)
        explicit == [k \in 1..Len(declared) |->
                        [method |-> MethodIn(vs, declared[k]), leaf |-> declared[k]]]
        entries == IF DeclaringIn(vs, path, "GET") # {} /\ DeclaringIn(vs, path, "HEAD") = {}
                   THEN Append(explicit,
                               [method |-> "HEAD",
                                leaf |-> CHOOSE v \in DeclaringIn(vs, path, "GET") : TRUE])
                   ELSE explicit
        Accepted(e) == AcceptsIn(vs, e.leaf, path)
        accepted == SelectSeq(entries, Accepted)
    IN  [k \in 1..Len(accepted) |-> accepted[k].method]

\* The nested type of the fallback variant of the deriving type.
FallbackInner == variants[fallback(variants)].forward_field

\* The events of the log about the nested router.
ForwardEvents == {k \in 1..Len(log) : log[k].step = "forward"}
ForwardInvoked == \E k \in ForwardEvents : log[k].ev = "invoke"

\* C11: a request for which the outer type has an explicit entry resolves
\* to that outer variant and the nested router of the fallback is never
\* invoked, whatever routes the nested type declares.
C11_ForwardPrecedence ==
    (pc \in {"await", "done"} /\ LeafsIn(variants, request.path, request.method) # {}) =>
        /\ variant \in LeafsIn(variants, request.path, request.method)
        /\ variant # fallback(variants)
        /\ ForwardEvents = {}

\* The outer variant took a request that the nested type of the fallback
\* has a route for as well.
C11_Witness ==
    /\ pc = "done" /\ result = Ok
    /\ fallback(variants) # 0 /\ variant # 0 /\ variant # fallback(variants)
    /\ DeclaringIn(FallbackInner, request.path, request.method) # {}

\* The nested type of the fallback has a pattern for the path of the
\* request and no entry for its method.
NestedWrongMethod ==
    /\ MatchingIn(FallbackInner, request.path) # {}
    /\ LeafsIn(FallbackInner, request.path, request.method) = {}

\* The outer type has a pattern for the path of the request and no entry
\* for its method.
OuterWrongMethod ==
    /\ MatchingIn(variants, request.path) # {}
    /\ LeafsIn(variants, request.path, request.method) = {}

\* C12: when the path matches an outer pattern with another method and the
\* nested router of the fallback fails with WrongMethod too, the error is
\* WrongMethod with the outer allowed methods followed by the nested ones.
C12_MergedAllowed ==
    (pc = "done" /\ fallback(variants) # 0 /\ OuterWrongMethod
        /\ ForwardInvoked /\ NestedWrongMethod) =>
        result = WrongMethod(AllowedIn(variants, request.path)
                             \o AllowedIn(FallbackInner, request.path))

\* The outer GET route and the nested POST route of one path refuse a
\* request: GET and the implied HEAD come before POST.
C12_Witness ==
    /\ pc = "done" /\ index # 0 /\ ForwardInvoked
    /\ result = WrongMethod(<<"GET", "HEAD", "POST">>)

\* The variants of the nested type the router of the fallback selected.
ForwardSelected == {log[k].field : k \in {j \in ForwardEvents : log[j].ev = "ok"}}

\* A guard of the outer variant failed.
OuterGuardFailed == \E k \in 1..Len(log) : log[k].ev = "err" /\ log[k].step = "guard"

C14_WrongMethodNotNoMatch ==
    (pc = "done" /\ fallback(variants) # 0 /\ OuterWrongMethod /\ ForwardInvoked
        /\ LeafsIn(FallbackInner, request.path, request.method) = {}) =>
        /\ result.kind = "WrongMethod"
        /\ result.allowed =
               AllowedIn(variants, request.path)
               \o (IF MatchingIn(FallbackInner, request.path) # {}
                   THEN AllowedIn(FallbackInner, request.path) ELSE <<>>)

\* The error of the nested decode, from the declarations of the nested
\* type and the failure the log ends with: no pattern of the nested type
\* for the path, no entry for the method, a placeholder that does not
\* parse, or the failure of a guard or of the body of the selected variant.
NestedFailure ==
    LET inner == FallbackInner
        leafs == LeafsIn(inner, request.path, request.method)
        last == log[Len(log)]
    IN  IF last.step = "forward"
        THEN IF MatchingIn(inner, request.path) = {} THEN "NoMatchingRoute"
             ELSE IF leafs = {} THEN "WrongMethod"
             ELSE IF \E v \in leafs : ~AcceptsIn(inner, v, request.path) THEN "PathSegment"
             ELSE "QueryParam"
        ELSE IF last.step = "nested guard" THEN "Guard"
        ELSE "Body"

\* The nested decode failed: the log ends with the failure of the nested
\* router or of a capability of the variant it selected.
NestedFailed ==
    /\ pc = "done" /\ log # <<>>
    /\ log[Len(log)].ev = "err"
    /\ log[Len(log)].step \in {"forward", "nested guard", "nested body"}

\* C15: a failure of the nested router of a kind other than WrongMethod is
\* the failure of the outer decode, with the same kind and nothing added.
C15_NestedErrorUnchanged ==
    (NestedFailed /\ variant = fallback(variants) /\ NestedFailure # "WrongMethod") =>
        result = Err(NestedFailure)

\* The nested type has no pattern for a path that an outer pattern matches
\* with another method: the outer decode fails as the nested one did.
C15_Witness ==
    /\ NestedFailed /\ index # 0 /\ variant = fallback(variants)
    /\ result = Err("NoMatchingRoute")

\* The reads of the body by a body decoder, and the calls of the nested
\* router, which gets the body to read.
BodyReads ==
    {k \in 1..Len(log) : log[k].ev = "invoke" /\ log[k].step \in {"body", "nested body"}}
ForwardCalls == {k \in ForwardEvents : log[k].ev = "invoke"}

\* The variants of a type with a body field and a forward field.
BodyAndForwardIn(vs) ==
    {v \in 1..Len(vs) : vs[v].body_field /\ vs[v].forward_field # NoForward}

\* C16: in a decode, over the outer and the nested type, the body goes to
\* at most one body decoder and is read at most once, and no variant of a
\* type the derive accepted has a body field and a forward field.
C16_BodyOnce ==
    /\ Cardinality(BodyReads) <= 1
    /\ Cardinality(ForwardCalls) <= 1
    /\ \A k \in BodyReads : log[k].step = "body" => ForwardCalls = {}
    /\ pc \in {"ready", "await", "done"} =>
           /\ BodyAndForwardIn(variants) = {}
           /\ \A v \in 1..Len(variants) : BodyAndForwardIn(variants[v].forward_field) = {}

\* The body went through the fallback to the body decoder of the variant
\* the nested router selected.
C16_Witness ==
    /\ pc = "done" /\ result = Ok /\ variant = fallback(variants)
    /\ \E k \in BodyReads : log[k].step = "nested body"

\* ------------------------------------------------------------------ claims: order of the steps

\* C17: in the decode of a variant the placeholders are parsed, then the
\* query parameters deserialized, before any guard is invoked: a
\* placeholder that does not parse gives PathSegment, whatever the query
\* string, a query string that does not deserialize gives QueryParam, and
\* in both cases no guard, body decoder or nested router is invoked.
C17_ParseBeforeGuards ==
    (pc \in {"await", "done"} /\ variant # 0) =>
        LET data == variants[variant]
            parses == LeafAccepts(variant, request.path)
            query == data.query_params_field => request.query_ok
        IN  /\ ~parses => result = Err("PathSegment") /\ log = <<>>
            /\ (parses /\ ~query) => result = Err("QueryParam") /\ log = <<>>
            /\ log # <<>> => parses /\ query
            /\ (parses /\ query /\ ChainOf(data) # <<>>) => log # <<>>

\* A placeholder that does not parse and a query string that does not
\* deserialize, in a variant with guards: PathSegment.
C17_Witness ==
    /\ pc = "done" /\ variant # 0 /\ result = Err("PathSegment")
    /\ variants[variant].query_params_field /\ ~request.query_ok
    /\ variants[variant].guard_fields # <<>>

\* The guards of a layer that succeeded before event k of the log.
GuardsPassed(k, step) ==
    Cardinality({j \in 1..(k - 1) : log[j].ev = "ok" /\ log[j].step = step})

NestedGuardFailed ==
    \E k \in 1..Len(log) : log[k].ev = "err" /\ log[k].step = "nested guard"

OverlapExample(v, w) ==
    LET a == RoutePath_parse(variants[v].routes[1].raw)
        b == RoutePath_parse(variants[w].routes[1].raw)
    IN  find_overlap(a, b).tag = "Some" \/ find_overlap(b, a).tag = "Some"

\* The pairs of variants whose patterns are not equivalent and overlap.
OverlappingPairs ==
    {p \in (1..Len(variants)) \X (1..Len(variants)) :
        /\ p[1] < p[2]
        /\ ~Equivalent(DeclSegments(p[1]), DeclSegments(p[2]))
        /\ OverlapExample(p[1], p[2])}

\* C19: a table with two routes of non-equivalent patterns for which
\* find_overlap gives an example is not built, whatever the methods of the
\* routes and the order of their declaration; the build fails on the
\* overlap check of the later route.
C19_OverlapRejected ==
    pc # "derive" =>
        /\ OverlappingPairs # {} => pc = "rejected" /\ ~pathmap.ok
        /\ (OverlappingPairs # {} /\ Len(variants) = 2) =>
               pathmap.panic = "route overlaps with previously defined route"
        /\ pathmap.panic = "route overlaps with previously defined route" =>
               OverlappingPairs # {}

\* A placeholder route and a literal route of different methods, the
\* literal one declared first, are refused.
C19_Witness ==
    /\ pc = "rejected"
    /\ pathmap.panic = "route overlaps with previously defined route"
    /\ Len(variants) = 2 /\ DeclMethod(1) # DeclMethod(2)
    /\ DeclSegments(1)[1].kind = "Literal" /\ DeclSegments(2)[1].kind = "Placeholder"

\* The pairs of variants with equivalent patterns, and those among them
\* with one method.
EquivalentPairs ==
    {p \in (1..Len(variants)) \X (1..Len(variants)) :
        p[1] < p[2] /\ Equivalent(DeclSegments(p[1]), DeclSegments(p[2]))}
DuplicatePairs == {p \in EquivalentPairs : DeclMethod(p[1]) = DeclMethod(p[2])}

\* The groups of the built map with an entry of variant v.
GroupsOf(v) ==
    {i \in 1..Len(pathmap.regex_map) :
        \E k \in 1..Len(pathmap.regex_map[i].route_map) :
            /\ pathmap.regex_map[i].route_map[k].variant = v
            /\ pathmap.regex_map[i].route_map[k].method = DeclMethod(v)}

C27_AllowedNonEmpty ==
    (pc = "done" /\ result.kind = "WrongMethod") => result.allowed # <<>>

\* C28: no method is twice in the allowed methods of a WrongMethod error,
\* also when the methods of the matched path are merged with those of the
\* nested type of the fallback variant.
C28_AllowedOnce ==
    (pc = "done" /\ result.kind = "WrongMethod") =>
        \A j, k \in 1..Len(result.allowed) :
            result.allowed[j] = result.allowed[k] => j = k

\* ------------------------------------------------------------------ claims: services

\* C21: the response of AsyncService and of SyncService to a HEAD request
\* has an empty body, whatever body the handler produced; for another
\* method the response of the handler is returned as it is.
C21_HeadEmptyBody ==
    served.tag = "Ok" =>
        /\ request.method = "HEAD" => served.body = "empty"
        /\ (request.method = "HEAD" /\ handled.tag = "Ok") =>
               served = [handled EXCEPT !.body = "empty"]
        /\ (request.method # "HEAD" /\ handled.tag = "Ok") => served = handled

\* The handler answered a HEAD request with a body, and the adapter
\* returned the response without it.
C21_Witness ==
    /\ stage = "returned"
    /\ request.method = "HEAD"
    /\ handled = Response("200", "content")
    /\ served = Response("200", "empty")

\* C22: with catch_unwind, a panic of the inner service, in its call or
\* in the poll of its future (guard, body decoder, handler), is one
\* invocation of the panic handler, whose result is the outcome of the
\* call; without a panic the result of the inner service is the outcome
\* and the panic handler is not invoked.
C22_CatchUnwind ==
    service.catch_unwind =>
        /\ calls.panic_handler = (IF served.tag = "panic" THEN 1 ELSE 0)
        /\ (result.tag = "panic" /\ stage # "decode") => served = Unwinding
        /\ handled.tag = "panic" => served = Unwinding
        /\ served.tag = "panic" => stage \in {"panic handler", "returned"}
        /\ (stage = "returned" /\ served.tag # "panic") => outcome = served
        /\ stage = "panic handler" => outcome = NoOutcome
        /\ stage # "returned" => outcome = NoOutcome

\* The decoder panicked in the call, before any capability was invoked,
\* and the response of the panic handler is the outcome.
C22_Witness ==
    /\ service.catch_unwind
    /\ stage = "returned"
    /\ result.tag = "panic" /\ log = <<>>
    /\ calls.panic_handler = 1
    /\ outcome = Response("500", "content")

\* C24: an error of the library's Error type, of the decode or of the
\* handler, becomes the successful result of the adapter with the
\* response of the error and an empty body; another error is returned as
\* the error of the service, unchanged; the handler is not invoked when
\* the decode failed.
C24_ErrorsToResponses ==
    /\ result.tag \in {"Err", "panic"} => calls.handler = 0 /\ handled = NoOutcome
    /\ served.tag = "Err" => ~served.ours
    /\ (served.tag # "none" /\ result.tag = "Err") =>
           /\ served \in {ErrorResponse(Failure(TRUE, result.kind)),
                          Failure(FALSE, result.kind)}
           /\ OursOf(result.kind) = {TRUE} => served.tag = "Ok"
    /\ (served.tag # "none" /\ handled.tag = "Err") =>
           served = (IF handled.ours THEN ErrorResponse(handled) ELSE handled)

\* A guard failed with an error of another type: the adapter returned
\* the error and the handler was not invoked.
C24_Witness ==
    /\ stage = "returned"
    /\ result.kind = "Guard"
    /\ served = Failure(FALSE, "Guard")
    /\ calls.handler = 0

\* ------------------------------------------------------------------ claims: rebuilding

Decodes == <<Polled>> \o tasks

\* The outcomes of the capabilities a decode has awaited, in order.
Outcomes(events) ==
    LET IsOutcome(e) == e.ev \in {"ok", "err"}
        completed == SelectSeq(events, IsOutcome)
    IN  [k \in 1..Len(completed) |-> completed[k].ev = "ok"]

\* A chain of futures run alone with the outcomes oks of its
\* capabilities: what it invokes, in order, and what it resolves to.
RECURSIVE RunChain(_, _)
RunChain(futures, oks) ==
    IF futures = <<>> THEN [log |-> <<>>, result |-> Ok]
    ELSE IF oks = <<>> THEN [log |-> <<Invoke(Head(futures))>>, result |-> NoResult]
    ELSE IF ~Head(oks)
    THEN [log |-> <<Invoke(Head(futures)), Completed(Head(futures), FALSE)>>,
          result |-> Err(IF Head(futures).step = "guard" THEN "Guard" ELSE "Body")]
    ELSE LET rest == RunChain(Tail(futures), Tail(oks))
         IN  [log |-> <<Invoke(Head(futures)), Completed(Head(futures), TRUE)>> \o rest.log,
              result |-> rest.result]

\* The decode of the request req run alone, from the table, with the
\* outcomes oks of its capabilities.
RunAlone(req, oks) ==
    LET leafs == LeafsIn(variants, req.path, req.method)
    IN  IF MatchingIn(variants, req.path) = {}
        THEN [variant |-> 0, log |-> <<>>, result |-> Err("NoMatchingRoute")]
        ELSE IF leafs = {}
        THEN [variant |-> 0, log |-> <<>>,
              result |-> WrongMethod(AllowedIn(variants, req.path))]
        ELSE LET v == CHOOSE w \in leafs : TRUE
             IN  IF ~AcceptsIn(variants, v, req.path)
                 THEN [variant |-> v, log |-> <<>>, result |-> Err("PathSegment")]
                 ELSE IF variants[v].query_params_field /\ ~req.query_ok
                 THEN [variant |-> v, log |-> <<>>, result |-> Err("QueryParam")]
                 ELSE [variant |-> v] @@ RunChain(ChainOf(variants[v]), oks)

\* C25: however the steps of the decodes in flight are interleaved, each
\* decode invokes what it invokes alone, in the same order, and resolves
\* to what it resolves to alone; the table is not modified after it has
\* been built.
C25_DecodesIndependent ==
    /\ [](\A d \in 1..Len(Decodes) :
            Decodes[d].pc \in {"await", "done"} =>
                LET alone == RunAlone(Decodes[d].request, Outcomes(Decodes[d].log))
                IN  /\ Decodes[d].variant = alone.variant
                    /\ Decodes[d].log = alone.log
                    /\ Decodes[d].result = alone.result
                    /\ (Decodes[d].pc = "done") = (alone.result # NoResult))
    /\ [][pc # "derive" =>
            /\ pathmap' = pathmap
            /\ forwarded' = forwarded
            /\ variants' = variants]_vars

\* Two decodes of different requests ran interleaved: one waits for its
\* second capability while the other has failed at its first.
C25_Witness ==
    /\ Len(tasks) = 1
    /\ pc = "await" /\ Len(log) = 3
    /\ tasks[1].pc = "done" /\ tasks[1].result.kind = "Guard"
    /\ tasks[1].request # request

\* ------------------------------------------------------------------ claims: cancellation

\* C26: after the caller dropped a decode that was suspended at a
\* capability, no step of the decode is invoked or completed: no guard,
\* body decoder or nested router, and no value or error is made.
C26_NothingAfterDrop ==
    \A k \in 1..Len(log) :
        log[k].ev = "drop" =>
            /\ k = Len(log)
            /\ pc = "dropped"
            /\ chain = <<>>
            /\ result = NoResult

\* The decode was dropped while its first guard was awaited, with the
\* nested router of the variant still to come.
C26_Witness ==
    /\ pc = "dropped"
    /\ log = <<[ev |-> "invoke", step |-> "guard", field |-> 1],
               [ev |-> "drop", step |-> "guard", field |-> 1]>>
    /\ variants[variant].forward_field # NoForward

\* ------------------------------------------------------------------ claims: resolution

\* What a decode resolved its request to: the matched path and the
\* variant, a routed one or the fallback, or the refusal when there is no
\* variant for the request.
Resolution(d) ==
    [index |-> d.index, variant |-> d.variant,
     refused |-> IF d.variant = 0 THEN d.result ELSE NoResult]

\* C29: two requests with the same method and path resolve alike, also
\* when their query strings, headers or bodies differ: to the same
\* variant, to the fallback, to WrongMethod with the same allowed methods,
\* or to NoMatchingRoute.
C29_ResolvedByMethodAndPath ==
    \A d, e \in 1..Len(Decodes) :
        (/\ Decodes[d].pc \in {"await", "done"}
         /\ Decodes[e].pc \in {"await", "done"}
         /\ Decodes[d].request.method = Decodes[e].request.method
         /\ Decodes[d].request.path = Decodes[e].request.path
         /\ Decodes[d].result.tag # "panic" /\ Decodes[e].result.tag # "panic") =>
            Resolution(Decodes[d]) = Resolution(Decodes[e])

\* Two requests with one method and path resolved to the same variant:
\* one failed on its query string, the other on its guard.
C29_Witness ==
    /\ Len(tasks) = 1
    /\ request.method = tasks[1].request.method
    /\ request.path = tasks[1].request.path
    /\ variant # 0 /\ variant = tasks[1].variant
    /\ result.kind = "QueryParam"
    /\ tasks[1].result.kind = "Guard"

\* ------------------------------------------------------------------ claims: termination

\* Every step of the variant the decode resolved to has succeeded: its
\* placeholders and query parameters parsed, and each of its guards, its
\* body decoder or its nested router, with the guards and the body decoder
\* of the nested variant, completed without an error.
Succeeded(step, field) ==
    \E k \in 1..Len(log) : log[k].ev = "ok" /\ log[k].step = step /\ log[k].field = field

EveryStepSucceeded ==
    /\ variant # 0
    /\ \A k \in 1..Len(log) : log[k].ev # "err"
    /\ LET data == variants[variant]
       IN  /\ data.routes # <<>> => AcceptsIn(variants, variant, request.path)
           /\ data.query_params_field => request.query_ok
           /\ \A g \in 1..Len(data.guard_fields) : Succeeded("guard", data.guard_fields[g])
           /\ data.body_field => Succeeded("body", 0)
           /\ data.forward_field # NoForward =>
                  \E v \in 1..Len(data.forward_field) :
                      /\ Succeeded("forward", v)
                      /\ AcceptsIn(data.forward_field, v, request.path)
                      /\ \A g \in 1..Len(data.forward_field[v].guard_fields) :
                             Succeeded("nested guard", data.forward_field[v].guard_fields[g])
                      /\ data.forward_field[v].body_field => Succeeded("nested body", 0)

\* C30: when every capability that is invoked completes, a decode ends,
\* with one outcome that does not change: the value, or one error; the
\* value is made only when every step succeeded.
C30_Terminates ==
    /\ (pc = "await") ~> (pc = "done")
    /\ [](pc = "done" <=> result # NoResult)
    /\ [](result.tag = "Ok" => EveryStepSucceeded)
    /\ [][pc = "done" => (pc' = "done" /\ result' = result /\ log' = log)]_vars

\* A decode ended with the value of the fallback variant after a guard of
\* the variant, the nested router and a guard of the nested variant.
C30_Witness ==
    /\ pc = "done" /\ result = Ok
    /\ variants[variant].forward_field # NoForward
    /\ Succeeded("guard", 1) /\ Succeeded("nested guard", 1)

\* ------------------------------------------------------------------ specifications

\* Routing tables of up to MaxRoutes routes, each on a variant of its own
\* without guards, query parameters or body.
Init ==
    /\ variants \in UNION { [1..n -> { VariantData(m, raw, NumberTys, <<>>, FALSE, FALSE) :
                                          m \in Methods, raw \in TableRaws }] :
                            n \in 1..MaxRoutes }
    /\ pathmap = MapOk(<<>>)
    /\ forwarded = <<>>
    /\ builds = 0
    /\ pc = "derive"
    /\ NoOverlapCheck
    /\ NoDecode
    /\ NoService

Next ==
    \/ Derive
    \/ from_request_and_body(RequestPaths(MaxPathLen))

Spec == Init /\ [][Next]_vars

\* One route on one variant, and long request paths.
InitRoute ==
    /\ variants \in { <<VariantData("GET", raw, NumberTys, <<>>, FALSE, FALSE)>> :
                         raw \in RouteRaws }
    /\ pathmap = MapOk(<<>>)
    /\ forwarded = <<>>
    /\ builds = 0
    /\ pc = "derive"
    /\ NoOverlapCheck
    /\ NoDecode
    /\ NoService

NextRoute ==
    \/ Derive
    \/ from_request_and_body(RequestPaths(MaxLongPathLen))

SpecRoute == InitRoute /\ [][NextRoute]_vars

\* One variant with guards, query parameters and a body.
DecodeRaws == { <<"/", "a">>, <<"/", "{", "x", "}">>, <<"/", "{", "y", "}">> }

InitDecode ==
    /\ variants \in { <<VariantData(m, raw, tys, GuardFields(n), query, body)>> :
                         m \in {"GET", "POST"}, raw \in DecodeRaws,
                         tys \in {NumberTys, StringTys}, n \in 0..MaxGuards,
                         query \in BOOLEAN, body \in BOOLEAN }
    /\ pathmap = MapOk(<<>>)
    /\ forwarded = <<>>
    /\ builds = 0
    /\ pc = "derive"
    /\ NoOverlapCheck
    /\ NoDecode
    /\ NoService

NextDecode ==
    \/ Derive
    \/ from_request_and_body(RequestPaths(MaxPathLen))
    \/ Complete

SpecDecode == InitDecode /\ [][NextDecode]_vars

\* A type with one routed variant and, or, a fallback variant whose
\* #[forward] field decodes a nested type of up to MaxRoutes routes.
ForwardRaws == { <<"/", "a">>, <<"/", "{", "x", "}">> }

ForwardRoutes(guards, body) ==
    { VariantData(m, raw, NumberTys, guards, FALSE, body) :
          m \in {"GET", "POST"}, raw \in ForwardRaws }

InnerTypes ==
    UNION { [1..n -> ForwardRoutes(GuardFields(g), body)] :
                n \in 1..MaxRoutes, g \in 0..1, body \in BOOLEAN }

InitForward ==
    /\ variants \in
           { outer \o <<ForwardVariant(GuardFields(g), FALSE, body, inner)>> :
                 outer \in {<<>>} \cup { <<r>> : r \in ForwardRoutes(<<>>, FALSE) },
                 g \in 0..1, body \in BOOLEAN, inner \in InnerTypes }
    /\ pathmap = MapOk(<<>>)
    /\ forwarded = <<>>
    /\ builds = 0
    /\ pc = "derive"
    /\ NoOverlapCheck
    /\ NoDecode
    /\ NoService

NextForward ==
    \/ Derive
    \/ from_request_and_body(RequestPaths(MaxPathLen))
    \/ Forward
    \/ Complete

SpecForward == InitForward /\ [][NextForward]_vars

\* A service of one adapter, wrapped with catch_unwind or not, over a type
\* of one variant with guards and a body, or over a type with the
\* asterisk path.
ServiceTables ==
    { <<VariantData(m, raw, NumberTys, GuardFields(n), FALSE, body)>> :
          m \in {"GET", "POST"}, raw \in ForwardRaws, n \in 0..1, body \in BOOLEAN }
    \cup { <<VariantData("GET", <<"*">>, NumberTys, <<>>, FALSE, FALSE),
             VariantData("GET", <<"/", "{", "x", "}">>, StringTys, <<>>, FALSE, FALSE)>> }

InitService ==
    /\ variants \in ServiceTables
    /\ pathmap = MapOk(<<>>)
    /\ forwarded = <<>>
    /\ builds = 0
    /\ pc = "derive"
    /\ NoOverlapCheck
    /\ NoDecode
    /\ service \in [adapter : {"async", "sync"}, catch_unwind : BOOLEAN]
    /\ stage = "decode"
    /\ calls = [handler |-> 0, panic_handler |-> 0]
    /\ handled = NoOutcome
    /\ served = NoOutcome
    /\ outcome = NoOutcome
    /\ tasks = <<>>

NextService ==
    \/ Derive
    \/ from_request_and_body(RequestPaths(MaxPathLen))
    \/ Complete
    \/ CapabilityPanics
    \/ Decoded
    \/ HandlerDone
    \/ PanicHandlerDone

SpecService == InitService /\ [][NextService]_vars

\* Routing tables that are built more than once.
NextRebuild ==
    \/ Rebuild
    \/ from_request_and_body(RequestPaths(MaxPathLen))

SpecRebuild == Init /\ [][NextRebuild]_vars

\* Decodes in flight at a time over one table, polled in any order.
ConcurrentPaths == { <<"/", "a">>, <<"/", "1">> }

InitConcurrent ==
    /\ variants \in { <<VariantData("GET", <<"/", "{", "x", "}">>, NumberTys,
                                    GuardFields(n), query, body)>> :
                         n \in 0..MaxGuards, query \in BOOLEAN, body \in BOOLEAN }
    /\ pathmap = MapOk(<<>>)
    /\ forwarded = <<>>
    /\ builds = 0
    /\ pc = "derive"
    /\ NoOverlapCheck
    /\ NoDecode
    /\ service = [adapter |-> "none", catch_unwind |-> FALSE]
    /\ stage = "off"
    /\ calls = [handler |-> 0, panic_handler |-> 0]
    /\ handled = NoOutcome
    /\ served = NoOutcome
    /\ outcome = NoOutcome
    /\ tasks = [i \in 1..(MaxDecodes - 1) |-> Fresh]

NextConcurrent ==
    \/ Derive
    \/ from_request_and_body(ConcurrentPaths)
    \/ Complete
    \/ Switch

SpecConcurrent == InitConcurrent /\ [][NextConcurrent]_vars

\* Decodes of a type with a fallback variant that the caller may drop.
NextCancel ==
    \/ Derive
    \/ from_request_and_body(RequestPaths(MaxPathLen))
    \/ Forward
    \/ Complete
    \/ Drop

SpecCancel == InitForward /\ [][NextCancel]_vars

\* Decodes in flight over a type of one routed variant, with a guard and
\* with or without query parameters, and, or not, a fallback variant.
ResolveTables ==
    { <<VariantData(m, raw, NumberTys, GuardFields(1), query, FALSE)>> \o
      (IF fb THEN <<ForwardVariant(<<>>, query, FALSE,
                       <<VariantData("GET", <<"/", "a">>, NumberTys, <<>>, FALSE, FALSE)>>)>>
       ELSE <<>>) :
          m \in {"GET", "POST"}, raw \in ForwardRaws, query \in BOOLEAN, fb \in BOOLEAN }

ResolvePaths == ConcurrentPaths \cup { <<"/">> }

InitResolve ==
    /\ variants \in ResolveTables
    /\ pathmap = MapOk(<<>>)
    /\ forwarded = <<>>
    /\ builds = 0
    /\ pc = "derive"
    /\ NoOverlapCheck
    /\ NoDecode
    /\ service = [adapter |-> "none", catch_unwind |-> FALSE]
    /\ stage = "off"
    /\ calls = [handler |-> 0, panic_handler |-> 0]
    /\ handled = NoOutcome
    /\ served = NoOutcome
    /\ outcome = NoOutcome
    /\ tasks = [i \in 1..(MaxDecodes - 1) |-> Fresh]

NextResolve ==
    \/ Derive
    \/ from_request_and_body(ResolvePaths)
    \/ Complete
    \/ Switch

SpecResolve == InitResolve /\ [][NextResolve]_vars

\* Decodes whose capabilities all complete: a future that can be polled to
\* its end is. The type has one routed variant with guards, query
\* parameters and a body, or one fallback variant with a guard whose
\* nested type has a guard and a body.
TerminateTables ==
    { <<VariantData("GET", <<"/", "{", "x", "}">>, NumberTys, GuardFields(n), query, body)>> :
          n \in 0..MaxGuards, query \in BOOLEAN, body \in BOOLEAN }
    \cup
    { <<ForwardVariant(GuardFields(g), FALSE, FALSE,
            <<VariantData("GET", <<"/", "a">>, NumberTys, GuardFields(h), FALSE, body)>>)>> :
          g \in 0..1, h \in 0..1, body \in BOOLEAN }

InitTerminate ==
    /\ variants \in TerminateTables
    /\ pathmap = MapOk(<<>>)
    /\ forwarded = <<>>
    /\ builds = 0
    /\ pc = "derive"
    /\ NoOverlapCheck
    /\ NoDecode
    /\ NoService

NextTerminate ==
    \/ Derive
    \/ from_request_and_body(ResolvePaths)
    \/ Forward
    \/ Complete

\* The decode awaits the nested router: the state in which Forward is
\* enabled, and which every step of Forward leaves.
AwaitsForward == pc = "await" /\ Head(chain).step = "forward"

\* Weak fairness of the completion of every awaited capability: of
\* Complete, and of Forward, written with the state in which it is
\* enabled.
SpecTerminate ==
    /\ InitTerminate /\ [][NextTerminate]_vars
    /\ WF_vars(Complete)
    /\ []<>(~AwaitsForward)

====
